---------------------------- MODULE Spec2Model ----------------------------
(***************************************************************************)
(* A model of the JPL Horizons fetcher:                                    *)
(*   src/PlanetaryObjectsFetcher.py   (PlanetaryObjectsFetcher, __main__)  *)
(*   src/PlaneraryObjectSelection.py  (PlanetaryObjectSelection.OBJECTS)   *)
(*                                                                         *)
(* Python strings are TLA+ strings; a character is a string of length 1.   *)
(* Python floats are exact fixed-point numbers: a parsed field is a record *)
(* [neg, mag] (sign and magnitude, so that -0.0 is a value of its own) in  *)
(* hundredths, and an angle is an integer number of 1/360000 degree, the   *)
(* unit in which hms_to_degrees and dms_to_degrees are exact for fields of *)
(* at most two decimals (the "HH MM SS.ss" layout of line 264).            *)
(***************************************************************************)
EXTENDS Integers, Sequences, FiniteSets, TLC

VARIABLES
    pc,               \* where the running function / script is
    ephemeris_text,   \* parse_ephemeris_data: its argument
    ephemeris_lines,  \* parse_ephemeris_data: ephemeris_text.split("\n")
    idx,              \* parse_ephemeris_data: position of the for loop
    data_found,       \* parse_ephemeris_data: local data_found
    data_lines,       \* parse_ephemeris_data: local data_lines (the result)
    coordinate_data,  \* parse_ra_dec: its argument
    parts,            \* parse_ra_dec: coordinate_data[0].split()
    coords,           \* parse_ra_dec: its return value
    radian,           \* radian_to_degree: its argument, in units of pi/RadDen
    degree,           \* radian_to_degree: local degree (the result)
    objects,          \* PlanetaryObjectSelection.OBJECTS
    choice,           \* __main__: the command read from the serial port
    written,          \* __main__: what serial.write has sent, in order
    requests,         \* __main__: the target bodies requested over HTTP
    cycles            \* __main__: the commands read so far

vars == <<pc, ephemeris_text, ephemeris_lines, idx, data_found, data_lines,
          coordinate_data, parts, coords, radian, degree,
          objects, choice, written, requests, cycles>>

extractVars == <<ephemeris_text, ephemeris_lines, idx, data_found, data_lines>>
parseVars   == <<coordinate_data, parts, coords>>
radianVars  == <<radian, degree>>
loopVars    == <<objects, choice, written, requests, cycles>>

\* Python's None, where a dictionary may stand instead
None == [none |-> TRUE]

---------------------------------------------------------------------------
(* Bounds of the model.                                                    *)

MaxLines == 4

---------------------------------------------------------------------------
(* Python's str operations.                                                *)

SetMin(S) == CHOOSE x \in S : \A y \in S : x <= y
SetMax(S) == CHOOSE x \in S : \A y \in S : x >= y

CharAt(s, i) == SubSeq(s, i, i)

\* sub in s
Contains(s, sub) ==
    \E i \in 1..(Len(s) - Len(sub) + 1) : SubSeq(s, i, i + Len(sub) - 1) = sub

\* str.isspace() of one character
IsSpace(c) == c \in {" ", "\t", "\r", "\n"}

\* s.strip()
Strip(s) ==
    LET keep == {i \in 1..Len(s) : ~IsSpace(CharAt(s, i))}
    IN  IF keep = {} THEN "" ELSE SubSeq(s, SetMin(keep), SetMax(keep))

\* s.split(sep) for a separator of one character
RECURSIVE SplitOn(_, _)
SplitOn(s, sep) ==
    LET at == {i \in 1..Len(s) : CharAt(s, i) = sep}
    IN  IF at = {} THEN <<s>>
        ELSE <<SubSeq(s, 1, SetMin(at) - 1)>>
             \o SplitOn(SubSeq(s, SetMin(at) + 1, Len(s)), sep)

\* "\n".join(lines), the text whose split("\n") is lines
RECURSIVE JoinLines(_)
JoinLines(ls) ==
    IF Len(ls) = 0 THEN ""
    ELSE IF Len(ls) = 1 THEN ls[1]
    ELSE ls[1] \o "\n" \o JoinLines(Tail(ls))

---------------------------------------------------------------------------
(* parse_ephemeris_data, lines 116-149.                                    *)

StartMarker == "$SOE"
EndMarker   == "$EOE"

\* line 140: if "$SOE" in line
TakenAsStart_EndFirst(line) ==
    Contains(line, StartMarker) /\ ~Contains(line, EndMarker)
TakenAsStart(line) == Contains(line, StartMarker)

\* line 143: if "$EOE" in line, reached only when line 140 was false
TakenAsEnd_WholeLine(line) == ~TakenAsStart(line) /\ Strip(line) = EndMarker
TakenAsEnd(line) == ~TakenAsStart(line) /\ Contains(line, EndMarker)

\* line 145: if data_found and line.strip()
TakenAsData_Unstripped(found, line) ==
    ~TakenAsStart(line) /\ ~TakenAsEnd(line) /\ found /\ line /= ""
TakenAsData(found, line) ==
    ~TakenAsStart(line) /\ ~TakenAsEnd(line) /\ found /\ Strip(line) /= ""

\* lines 135-137
ExtractSplit ==
    /\ pc = "extract_call"
    /\ ephemeris_lines' = SplitOn(ephemeris_text, "\n")
    /\ data_lines' = <<>>
    /\ data_found' = FALSE
    /\ idx' = 1
    /\ pc' = "extract_loop"
    /\ UNCHANGED <<ephemeris_text, parseVars, radianVars, loopVars>>

\* lines 140-142: a start marker line; continue
ExtractStart ==
    /\ pc = "extract_loop"
    /\ idx <= Len(ephemeris_lines)
    /\ TakenAsStart(ephemeris_lines[idx])
    /\ data_found' = TRUE
    /\ idx' = idx + 1
    /\ UNCHANGED <<pc, ephemeris_text, ephemeris_lines, data_lines,
                   parseVars, radianVars, loopVars>>

\* lines 143-144: an end marker line; break
ExtractEnd ==
    /\ pc = "extract_loop"
    /\ idx <= Len(ephemeris_lines)
    /\ TakenAsEnd(ephemeris_lines[idx])
    /\ pc' = "extract_done"
    /\ UNCHANGED <<extractVars, parseVars, radianVars, loopVars>>

\* lines 145-147: the first data line; append its strip() and break
ExtractData ==
    /\ pc = "extract_loop"
    /\ idx <= Len(ephemeris_lines)
    /\ TakenAsData(data_found, ephemeris_lines[idx])
    /\ data_lines' = Append(data_lines, Strip(ephemeris_lines[idx]))
    /\ pc' = "extract_done"
    /\ UNCHANGED <<ephemeris_text, ephemeris_lines, idx, data_found,
                   parseVars, radianVars, loopVars>>

\* line 139: no branch taken, the loop goes on to the next line
ExtractSkip ==
    /\ pc = "extract_loop"
    /\ idx <= Len(ephemeris_lines)
    /\ ~TakenAsStart(ephemeris_lines[idx])
    /\ ~TakenAsEnd(ephemeris_lines[idx])
    /\ ~TakenAsData(data_found, ephemeris_lines[idx])
    /\ idx' = idx + 1
    /\ UNCHANGED <<pc, ephemeris_text, ephemeris_lines, data_found, data_lines,
                   parseVars, radianVars, loopVars>>

\* lines 139, 149: the lines are exhausted; return data_lines
ExtractExhausted ==
    /\ pc = "extract_loop"
    /\ idx > Len(ephemeris_lines)
    /\ pc' = "extract_done"
    /\ UNCHANGED <<extractVars, parseVars, radianVars, loopVars>>

\* The lines a Horizons "result" text is made of in the model: blank lines,
\* the two markers as Horizons prints them, a line with both, data lines.
TextLines ==
    {"", " \t", "$$SOE", "$$EOE", "x $SOE $EOE", " d1 \r", "d2"}

Texts ==
    UNION {{JoinLines(ls) : ls \in [1..n -> TextLines]} : n \in 0..MaxLines}

IdleExtract ==
    /\ ephemeris_text = ""
    /\ ephemeris_lines = <<>>
    /\ idx = 0
    /\ data_found = FALSE
    /\ data_lines = <<>>

IdleParse ==
    /\ coordinate_data = <<>>
    /\ parts = <<>>
    /\ coords = None

IdleRadian ==
    /\ radian = 0
    /\ degree = 0

IdleLoop ==
    /\ objects = <<>>
    /\ choice = ""
    /\ written = <<>>
    /\ requests = <<>>
    /\ cycles = 0

InitExtract ==
    /\ pc = "extract_call"
    /\ ephemeris_text \in Texts
    /\ ephemeris_lines = <<>>
    /\ idx = 0
    /\ data_found = FALSE
    /\ data_lines = <<>>
    /\ IdleParse /\ IdleRadian /\ IdleLoop

NextExtract ==
    \/ ExtractSplit
    \/ ExtractStart
    \/ ExtractEnd
    \/ ExtractData
    \/ ExtractSkip
    \/ ExtractExhausted

SpecExtract == InitExtract /\ [][NextExtract]_vars

---------------------------------------------------------------------------
(* Properties of parse_ephemeris_data.                                     *)

ExtractDone == pc = "extract_done"

\* the lines of the text holding each marker
LinesWith(marker) ==
    {i \in 1..Len(ephemeris_lines) : Contains(ephemeris_lines[i], marker)}
StartLines == LinesWith("$SOE")
EndLines   == LinesWith("$EOE")
NonBlank(i) == Strip(ephemeris_lines[i]) /= ""

\* C1 as stated: when a $SOE line precedes every $EOE line, the result is the
\* first non-blank line after that $SOE line and before the next $EOE line,
\* stripped, and nothing else; with no such line, or no $SOE line, it is empty.
C1_FirstNonBlankLine ==
    ExtractDone =>
        /\ StartLines = {} => data_lines = <<>>
        /\ (StartLines /= {} /\ \A e \in EndLines : SetMin(StartLines) < e) =>
              LET s == SetMin(StartLines)
                  between == {j \in (s + 1)..Len(ephemeris_lines) :
                                 /\ NonBlank(j)
                                 /\ \A e \in EndLines : j < e}
              IN  data_lines =
                     IF between = {} THEN <<>>
                     ELSE <<Strip(ephemeris_lines[SetMin(between)])>>

\* C1 as amended: a line holding $SOE (with or without $EOE) is a start marker
\* line and never data, and an end marker line is one holding $EOE and no
\* $SOE.  When a start marker line precedes every end marker line, the result
\* is the first line after it and before the next end marker line that is
\* non-blank and holds no $SOE, stripped; later data lines are discarded.
\* With no such line, or no start marker line, the result is empty.
C1_FirstDataLine ==
    ExtractDone =>
        LET ends == EndLines \ StartLines
        IN  /\ StartLines = {} => data_lines = <<>>
            /\ (StartLines /= {} /\ \A e \in ends : SetMin(StartLines) < e) =>
                  LET s == SetMin(StartLines)
                      between == {j \in (s + 1)..Len(ephemeris_lines) :
                                     /\ NonBlank(j)
                                     /\ j \notin StartLines
                                     /\ \A e \in ends : j < e}
                  IN  data_lines =
                         IF between = {} THEN <<>>
                         ELSE <<Strip(ephemeris_lines[SetMin(between)])>>

\* A padded data line was returned stripped, after a second start marker line
\* was passed while collecting, and a later line was left unread.
C1_Witness ==
    /\ ExtractDone
    /\ Len(data_lines) = 1
    /\ idx < Len(ephemeris_lines)
    /\ data_lines[1] /= ephemeris_lines[idx]
    /\ \E j \in StartLines : SetMin(StartLines) < j /\ j < idx

\* C6: when a $EOE line comes before every $SOE line, the scan never leaves
\* Seeking (data_found stays false), reads no line after that $EOE line and
\* ends there with no data, whatever follows it.
C6_EndBeforeStart ==
    (EndLines /= {} /\ \A s \in StartLines : SetMin(EndLines) < s) =>
        /\ data_found = FALSE
        /\ data_lines = <<>>
        /\ idx <= SetMin(EndLines)
        /\ ExtractDone => idx = SetMin(EndLines)

\* The scan is done at a $EOE line that a $SOE line and a data line follow.
C6_Witness ==
    /\ ExtractDone
    /\ EndLines /= {}
    /\ StartLines /= {}
    /\ SetMin(EndLines) < SetMin(StartLines)
    /\ \E j \in (SetMin(StartLines) + 1)..Len(ephemeris_lines) :
          NonBlank(j) /\ j \notin StartLines /\ j \notin EndLines

\* C10: the result has at most one line; a returned line is non-empty, has no
\* whitespace at either end and holds neither marker; the scan never ends at a
\* line holding $SOE, so a line with both markers does not end it.
C10_ResultShape ==
    /\ Len(data_lines) <= 1
    /\ \A k \in 1..Len(data_lines) :
          /\ data_lines[k] /= ""
          /\ ~IsSpace(CharAt(data_lines[k], 1))
          /\ ~IsSpace(CharAt(data_lines[k], Len(data_lines[k])))
          /\ ~Contains(data_lines[k], "$SOE")
          /\ ~Contains(data_lines[k], "$EOE")
    /\ (ExtractDone /\ idx <= Len(ephemeris_lines)) => idx \notin StartLines

\* A line was returned after the scan, already collecting, went past a line
\* holding both markers.
C10_Witness ==
    /\ ExtractDone
    /\ Len(data_lines) = 1
    /\ \E j \in StartLines \cap EndLines : SetMin(StartLines) < j /\ j < idx

---------------------------------------------------------------------------
(* Python's float(s) and s.split().                                        *)

Digits == {"0", "1", "2", "3", "4", "5", "6", "7", "8", "9"}

DigitVal(c) == (CHOOSE i \in 1..10 : CharAt("0123456789", i) = c) - 1

\* int(s) of a string of digits ("" is 0)
RECURSIVE IntVal(_)
IntVal(s) ==
    IF s = "" THEN 0
    ELSE IntVal(SubSeq(s, 1, Len(s) - 1)) * 10 + DigitVal(CharAt(s, Len(s)))

ValueError == "ValueError"
IndexError == "IndexError"
NoError    == "NoError"

\* float(tok) for a token of split(): an optional sign, then digits with at
\* most one point and at least one digit; anything else is a ValueError.  The
\* value is [err, neg, mag], mag in hundredths (the fields of the model carry at
\* most two decimals; the characters of inf, nan, exponents and digit
\* separators are not among theirs).
ParseFloat(tok) ==
    LET signed == tok /= "" /\ CharAt(tok, 1) \in {"+", "-"}
        body   == IF signed THEN SubSeq(tok, 2, Len(tok)) ELSE tok
        dots   == {i \in 1..Len(body) : CharAt(body, i) = "."}
        ok     == /\ Cardinality(dots) <= 1
                  /\ \A i \in 1..Len(body) : CharAt(body, i) \in Digits \cup {"."}
                  /\ \E i \in 1..Len(body) : CharAt(body, i) \in Digits
        dot    == IF dots = {} THEN Len(body) + 1 ELSE SetMin(dots)
        whole  == SubSeq(body, 1, dot - 1)
        after  == IF dots = {} THEN "" ELSE SubSeq(body, dot + 1, Len(body))
        frac   == SubSeq(after \o "00", 1, 2)
    IN  IF ~ok THEN [err |-> ValueError]
        ELSE [err |-> NoError,
              neg |-> signed /\ CharAt(tok, 1) = "-",
              mag |-> IntVal(whole) * 100 + IntVal(frac)]

\* the number a float stands for, in hundredths: -0.0 and 0.0 are both 0
Val(f) == IF f.neg THEN 0 - f.mag ELSE f.mag

Abs(x) == IF x < 0 THEN 0 - x ELSE x

\* s.split(): the maximal runs of non-whitespace characters
RECURSIVE Split(_)
Split(s) ==
    LET t  == Strip(s)
        ws == {i \in 1..Len(t) : IsSpace(CharAt(t, i))}
        e  == IF ws = {} THEN Len(t) + 1 ELSE SetMin(ws)
    IN  IF t = "" THEN <<>>
        ELSE <<SubSeq(t, 1, e - 1)>> \o Split(SubSeq(t, e, Len(t)))

\* " ".join(tokens)
RECURSIVE JoinFields(_)
JoinFields(toks) ==
    IF Len(toks) = 0 THEN ""
    ELSE IF Len(toks) = 1 THEN toks[1]
    ELSE toks[1] \o " " \o JoinFields(Tail(toks))

---------------------------------------------------------------------------
(* hms_to_degrees, dms_to_degrees, parse_ra_dec: lines 214-288.            *)
(* Angles are integers in units of 1/360000 degree: a field of c           *)
(* hundredths is c * 3600 units, c/60 is c * 60 units, c/3600 is c units.  *)

\* 360000 units make a degree
Deg(n) == n * 360000

\* line 227: (hours + minutes/60.0 + seconds/3600.0) * 15.0
hms_to_degrees_PerHour30(hours, minutes, seconds) ==
    (Val(hours) * 3600 + Val(minutes) * 60 + Val(seconds)) * 30
hms_to_degrees(hours, minutes, seconds) ==
    (Val(hours) * 3600 + Val(minutes) * 60 + Val(seconds)) * 15

\* lines 242-243: sign = 1 if degrees >= 0 else -1;
\*                sign * (abs(degrees) + arcminutes/60.0 + arcseconds/3600.0)
dms_to_degrees(degrees, arcminutes, arcseconds) ==
    LET sign == IF Val(degrees) >= 0 THEN 1 ELSE -1
    IN  sign * (Abs(Val(degrees)) * 3600 + Val(arcminutes) * 60 + Val(arcseconds))

\* lines 268-274: the indices of parts read, in the order they are read
RaDecIndices == <<3, 4, 5, 6, 7, 8>>

\* float(parts[i]), i counted from 0 as in the code
Field(ps, i) ==
    IF i + 1 > Len(ps) THEN [err |-> IndexError] ELSE ParseFloat(ps[i + 1])

\* the exception lines 268-274 raise first, or NoError
Raised(ps) ==
    LET bad == {k \in 1..Len(RaDecIndices) :
                   Field(ps, RaDecIndices[k]).err /= NoError}
    IN  IF bad = {} THEN NoError ELSE Field(ps, RaDecIndices[SetMin(bad)]).err

\* line 285: except (IndexError, ValueError)
Caught_ValueErrorOnly == {ValueError}
Caught == {IndexError, ValueError}

\* lines 276-284: the dictionary returned (ra_hms and dec_dms, display strings
\* that nothing reads back, are left out)
RaDec(ps) ==
    [ra_deg  |-> hms_to_degrees(Field(ps, RaDecIndices[1]),
                                Field(ps, RaDecIndices[2]),
                                Field(ps, RaDecIndices[3])),
     dec_deg |-> dms_to_degrees(Field(ps, RaDecIndices[4]),
                                Field(ps, RaDecIndices[5]),
                                Field(ps, RaDecIndices[6]))]

\* lines 257-258
ParseEmpty ==
    /\ pc = "parse_call"
    /\ coordinate_data = <<>>
    /\ coords' = None
    /\ pc' = "parse_done"
    /\ UNCHANGED <<coordinate_data, parts, extractVars, radianVars, loopVars>>

\* line 262
ParseSplit ==
    /\ pc = "parse_call"
    /\ coordinate_data /= <<>>
    /\ parts' = Split(coordinate_data[1])
    /\ pc' = "parse_fields"
    /\ UNCHANGED <<coordinate_data, coords, extractVars, radianVars, loopVars>>

\* lines 268-284: every field converts
ParseConvert ==
    /\ pc = "parse_fields"
    /\ Raised(parts) = NoError
    /\ coords' = RaDec(parts)
    /\ pc' = "parse_done"
    /\ UNCHANGED <<coordinate_data, parts, extractVars, radianVars, loopVars>>

\* lines 285-288: a conversion raised; a caught exception gives None, any
\* other leaves parse_ra_dec
ParseExcept ==
    /\ pc = "parse_fields"
    /\ Raised(parts) /= NoError
    /\ IF Raised(parts) \in Caught
          THEN coords' = None /\ pc' = "parse_done"
          ELSE coords' = coords /\ pc' = "parse_raised"
    /\ UNCHANGED <<coordinate_data, parts, extractVars, radianVars, loopVars>>

\* Record lines of the model: the timestamp and flag fields of the Horizons
\* layout, then one choice per RA/DEC field, cut after any number of fields
\* and joined by single spaces (an empty choice leaves two spaces in a row,
\* which split() takes as one separator, so the line is one field short).
MaxFields == 10

FieldChoices ==
    <<{"2025-Nov-29"}, {"00:00"}, {"*m"},
      {"03", "23", "24", "h"},
      {"45", "59", "4x"},
      {"12.30", "59.99", "1.2.3"},
      {"-05", "-00", "+00", "89", "90", "-95", "--5"},
      {"30", "00", ""},
      {"15.0", "0", "."}>>

FieldChoice(i) == IF i <= Len(FieldChoices) THEN FieldChoices[i] ELSE {"n.a."}

\* the token sequences of n fields
RECURSIVE FieldSeqs(_)
FieldSeqs(n) ==
    IF n = 0 THEN {<<>>}
    ELSE {Append(f, t) : f \in FieldSeqs(n - 1), t \in FieldChoice(n)}

RecordLines == UNION {{JoinFields(f) : f \in FieldSeqs(n)} : n \in 0..MaxFields}

InitParse ==
    /\ pc = "parse_call"
    /\ coordinate_data \in {<<>>} \cup {<<line>> : line \in RecordLines}
    /\ parts = <<>>
    /\ coords = None
    /\ IdleExtract /\ IdleRadian /\ IdleLoop

NextParse ==
    \/ ParseEmpty
    \/ ParseSplit
    \/ ParseConvert
    \/ ParseExcept

SpecParse == InitParse /\ [][NextParse]_vars

---------------------------------------------------------------------------
(* Properties of parse_ra_dec and the two conversions.                     *)

ParseDone == pc = "parse_done"

\* the fields of the record line: what separates them is whitespace only
Numeric(tok) == ParseFloat(tok).err = NoError
Num(tok)     == Val(ParseFloat(tok))
WellFormed   == Len(parts) >= 9 /\ \A i \in 4..9 : Numeric(parts[i])
Accepted     == ParseDone /\ coords /= None

\* C3: parse_ra_dec never raises to its caller; an empty list gives None; a
\* line of at least 9 fields whose fields 3..8 are numeric gives
\* ra_deg = (h + m/60 + s/3600) * 15 of fields 3, 4, 5 and
\* dec_deg = dms_to_degrees of fields 6, 7, 8; any other line gives None.
C3_ParseRaDec ==
    /\ pc /= "parse_raised"
    /\ ParseDone =>
          IF coordinate_data = <<>> THEN coords = None
          ELSE IF WellFormed
          THEN /\ coords /= None
               /\ coords.ra_deg =
                     (Num(parts[4]) * 3600 + Num(parts[5]) * 60 + Num(parts[6])) * 15
               /\ coords.dec_deg =
                     dms_to_degrees(ParseFloat(parts[7]), ParseFloat(parts[8]),
                                    ParseFloat(parts[9]))
          ELSE coords = None

\* A line of 9 numeric fields or more was converted.
C3_Witness ==
    /\ Accepted
    /\ Len(parts) > 9
    /\ coords.ra_deg = (300 * 3600 + 4500 * 60 + 1230) * 15

\* C4: the sign of dec_deg is the sign written in the degrees field, -0
\* included: with non-negative arcminutes and arcseconds, a degrees field
\* written negative gives -(|d| + m/60 + s/3600) and any other gives
\* +(d + m/60 + s/3600).
C4_SignFromDegreesField ==
    (Accepted /\ Num(parts[8]) >= 0 /\ Num(parts[9]) >= 0) =>
        LET magnitude == Abs(Num(parts[7])) * 3600 + Num(parts[8]) * 60 + Num(parts[9])
        IN  coords.dec_deg =
               IF CharAt(parts[7], 1) = "-" THEN 0 - magnitude ELSE magnitude

InSexagesimalRange ==
    /\ 0 <= Num(parts[4]) /\ Num(parts[4]) < 2400
    /\ \A i \in {5, 6, 8, 9} : 0 <= Num(parts[i]) /\ Num(parts[i]) < 6000
    /\ Abs(Num(parts[7])) * 3600 + Num(parts[8]) * 60 + Num(parts[9]) <= Deg(90)

---------------------------------------------------------------------------
(* radian_to_degree, lines 199-212.  The argument counts twelfths of pi,   *)
(* so that radian * (180.0 / np.pi) is the whole number radian * 180 / 12  *)
(* of degrees.                                                             *)

MaxRadian == 40

\* line 209
RadianConvert ==
    /\ pc = "radian_call"
    /\ degree' = (radian * 180) \div 12
    /\ pc' = "radian_converted"
    /\ UNCHANGED <<radian, extractVars, parseVars, loopVars>>

\* lines 210-211: a negative angle has 360 added, once
RadianWrap ==
    /\ pc = "radian_converted"
    /\ degree < 0
    /\ degree' = 360 + degree
    /\ pc' = "radian_done"
    /\ UNCHANGED <<radian, extractVars, parseVars, loopVars>>

\* lines 210, 212: any other angle is returned as it is
RadianReturn ==
    /\ pc = "radian_converted"
    /\ ~(degree < 0)
    /\ pc' = "radian_done"
    /\ UNCHANGED <<radianVars, extractVars, parseVars, loopVars>>

InitRadian ==
    /\ pc = "radian_call"
    /\ radian \in (0 - MaxRadian)..MaxRadian
    /\ degree = 0
    /\ IdleExtract /\ IdleParse /\ IdleLoop

NextRadian ==
    \/ RadianConvert
    \/ RadianWrap
    \/ RadianReturn

SpecRadian == InitRadian /\ [][NextRadian]_vars

\* C7: radian_to_degree returns a value in [0, 360) for every input.
C7_DegreeInRange ==
    pc = "radian_done" => (0 <= degree /\ degree < 360)

---------------------------------------------------------------------------
(* PlanetaryObjectSelection.OBJECTS, lines 13-58 of                        *)
(* PlaneraryObjectSelection.py: a dict, its items in insertion order.      *)

OBJECTS_WithThreeMore ==
    << <<"Sun", "10">>,
       <<"Mercury", "199">>, <<"Venus", "299">>, <<"Earth", "399">>,
       <<"Mars", "499">>,
       <<"Jupiter", "599">>, <<"Saturn", "699">>, <<"Uranus", "799">>,
       <<"Neptune", "899">>,
       <<"Pluto", "999">>, <<"Ceres", "2000001">>,
       <<"Moon", "301">>,
       <<"Phobos", "401">>, <<"Deimos", "402">>,
       <<"Io", "501">>, <<"Europa", "502">>, <<"Ganymede", "503">>,
       <<"Callisto", "504">>,
       <<"Titan", "606">>, <<"Rhea", "605">>, <<"Iapetus", "608">>,
       <<"Enceladus", "602">>, <<"Mimas", "601">>, <<"Dione", "604">>,
       <<"Titania", "703">>, <<"Oberon", "704">>, <<"Miranda", "705">>,
       <<"Triton", "801">> >>

OBJECTS ==
    << <<"Sun", "10">>,
       <<"Mercury", "199">>, <<"Venus", "299">>, <<"Earth", "399">>,
       <<"Mars", "499">>,
       <<"Jupiter", "599">>, <<"Saturn", "699">>, <<"Uranus", "799">>,
       <<"Neptune", "899">>,
       <<"Pluto", "999">>, <<"Ceres", "2000001">>,
       <<"Moon", "301">>,
       <<"Phobos", "401">>, <<"Deimos", "402">>,
       <<"Io", "501">>, <<"Europa", "502">>, <<"Ganymede", "503">>,
       <<"Callisto", "504">>,
       <<"Titan", "606">>, <<"Rhea", "605">>, <<"Iapetus", "608">>,
       <<"Enceladus", "602">>,
       <<"Titania", "703">>, <<"Oberon", "704">>,
       <<"Triton", "801">> >>

\* OBJECTS.keys()
Keys(objs) == {objs[i][1] : i \in 1..Len(objs)}

\* choice in OBJECTS (line 330): an exact comparison of strings
\* (the first definition lets the first letter differ, as a comparison that
\* ignores its case would)
IsKnown_AnyCase(objs, name) ==
    \E k \in Keys(objs) : Len(k) = Len(name) /\ Tail(k) = Tail(name)
IsKnown(objs, name) == name \in Keys(objs)

KeyError == "KeyError"

\* OBJECTS[choice] (line 331)
Lookup(objs, name) ==
    IF name \in Keys(objs)
    THEN objs[CHOOSE i \in 1..Len(objs) : objs[i][1] = name][2]
    ELSE KeyError

---------------------------------------------------------------------------
(* fetch_ephemeris_data, parse_ephemeris_data, parse_ra_dec and            *)
(* get_coordinates_degrees as the functions of the response they are.      *)

\* lines 139-149, the loop from line i on
RECURSIVE ScanFrom(_, _, _)
ScanFrom(ls, i, found) ==
    IF i > Len(ls) THEN <<>>
    ELSE IF TakenAsStart(ls[i]) THEN ScanFrom(ls, i + 1, TRUE)
    ELSE IF TakenAsEnd(ls[i]) THEN <<>>
    ELSE IF TakenAsData(found, ls[i]) THEN <<Strip(ls[i])>>
    ELSE ScanFrom(ls, i + 1, found)

\* lines 116-149
parse_ephemeris_data(text) == ScanFrom(SplitOn(text, "\n"), 1, FALSE)

\* lines 104-113: the response is [status_code, result]
fetch_ephemeris_data(response) ==
    IF response.status_code = 200
    THEN parse_ephemeris_data(response.result)
    ELSE <<>>

\* lines 246-288: None, the dictionary, or the exception that leaves it
parse_ra_dec(data) ==
    IF data = <<>> THEN None
    ELSE IF Raised(Split(data[1])) = NoError THEN RaDec(Split(data[1]))
    ELSE IF Raised(Split(data[1])) \in Caught THEN None
    ELSE [raised |-> Raised(Split(data[1]))]

\* lines 290-310
get_coordinates_degrees(response) == parse_ra_dec(fetch_ephemeris_data(response))

---------------------------------------------------------------------------
(* Number formatting of line 333.                                          *)

DigitChar(d) == CharAt("0123456789", d + 1)

\* str(n) of a natural number
RECURSIVE ToStr(_)
ToStr(n) == IF n < 10 THEN DigitChar(n) ELSE ToStr(n \div 10) \o DigitChar(n % 10)

\* f"{x:.4f}" of an angle of x/360000 degrees: x/36 ten-thousandths, rounded
\* to the nearest, a tie to the even one; the sign of x is kept
Format4(x) ==
    LET a    == Abs(x)
        q    == a \div 36
        r    == a % 36
        n    == IF r > 18 \/ (r = 18 /\ q % 2 = 1) THEN q + 1 ELSE q
        frac == "0000" \o ToStr(n % 10000)
    IN  (IF x < 0 THEN "-" ELSE "")
        \o ToStr(n \div 10000) \o "." \o SubSeq(frac, Len(frac) - 3, Len(frac))

\* "\n".join([f"{name}: {obj_id}" for name, obj_id in OBJECTS.items()])
RECURSIVE Listing(_)
Listing(objs) ==
    IF Len(objs) = 0 THEN ""
    ELSE IF Len(objs) = 1 THEN objs[1][1] \o ": " \o objs[1][2]
    ELSE objs[1][1] \o ": " \o objs[1][2] \o "\n" \o Listing(Tail(objs))

\* str.isdigit(), line 336
IsDigit(str) == str /= "" /\ \A i \in 1..Len(str) : CharAt(str, i) \in Digits

---------------------------------------------------------------------------
(* __main__, lines 314-343: the start and the serial command loop.         *)

MaxCycles == 3

\* What the Horizons API may answer: an error status, or status 200 with a
\* text that has a full record, no line between the markers, a short record,
\* a record that is not numeric, or no marker at all.
Responses ==
    {[status_code |-> 503, result |-> ""]} \cup
    {[status_code |-> 200, result |-> t] : t \in
        {"Ephemeris\n$$SOE\n 2025-Nov-29 00:00 *m  03 45 12.30 -05 30 15.0\n 2025-Nov-29 01:00 *m  03 47 01.10 -05 20 11.2\n$$EOE\n",
         "Ephemeris\n$$SOE\n$$EOE\n",
         "$$SOE\n 2025-Nov-29 00:00 *m  03 45\n$$EOE\n",
         "$$SOE\n 2025-Nov-29 00:00 *m  n.a. n.a. n.a. n.a. n.a. n.a.\n$$EOE\n",
         "No ephemeris for target"}}

\* The lines the serial port may deliver, as readline() returns them.
Commands ==
    {"Moon\n", " Pluto\r\n", "moon\n", "Xyzzy\n", "STAR:Moon\n", "7\n", "\n"}

\* lines 316-322: the Moon's coordinates are fetched and, if there are any,
\* printed; then the names are printed
Startup ==
    /\ pc = "startup"
    /\ \E response \in Responses :
          /\ requests' = Append(requests, "301")
          /\ IF "raised" \in DOMAIN get_coordinates_degrees(response)
                THEN pc' = "terminated"
                ELSE pc' = "poll"
    /\ UNCHANGED <<objects, choice, written, cycles,
                   extractVars, parseVars, radianVars>>

\* line 325: nothing is waiting on the port
PollIdle ==
    /\ pc = "poll"
    /\ UNCHANGED vars

\* lines 326-335: the command names a known body
HandleKnown ==
    /\ pc = "poll"
    /\ cycles < MaxCycles
    /\ \E line \in Commands, response \in Responses :
          LET chosen    == Strip(line)
              object_id == Lookup(objects, chosen)
              data      == get_coordinates_degrees(response)
          IN  /\ IsKnown(objects, chosen)
              /\ choice' = chosen
              /\ cycles' = cycles + 1
              /\ IF object_id = KeyError
                    THEN \* line 331 raises KeyError
                         /\ pc' = "terminated"
                         /\ UNCHANGED <<requests, written>>
                    ELSE /\ requests' = Append(requests, object_id)
                         /\ IF data = None \/ "raised" \in DOMAIN data
                               THEN \* line 333 raises TypeError on None
                                    /\ pc' = "terminated"
                                    /\ UNCHANGED written
                               ELSE /\ written' = Append(written,
                                          Format4(data.ra_deg) \o ","
                                          \o Format4(data.dec_deg) \o "\n")
                                    /\ pc' = "poll"
    /\ UNCHANGED <<objects, extractVars, parseVars, radianVars>>

\* lines 326-329, 336-341: the command is a number; the table is sent
HandleDigit ==
    /\ pc = "poll"
    /\ cycles < MaxCycles
    /\ \E line \in Commands :
          /\ ~IsKnown(objects, Strip(line))
          /\ IsDigit(Strip(line))
          /\ choice' = Strip(line)
    /\ cycles' = cycles + 1
    /\ written' = Append(written, Listing(objects))
    /\ UNCHANGED <<pc, objects, requests, extractVars, parseVars, radianVars>>

\* lines 326-329, 342-343: any other command; error_msg is made
HandleUnknown ==
    /\ pc = "poll"
    /\ cycles < MaxCycles
    /\ \E line \in Commands :
          /\ ~IsKnown(objects, Strip(line))
          /\ ~IsDigit(Strip(line))
          /\ choice' = Strip(line)
    /\ cycles' = cycles + 1
    /\ UNCHANGED <<pc, objects, requests, written,
                   extractVars, parseVars, radianVars>>

Init ==
    /\ pc = "startup"
    /\ objects = OBJECTS
    /\ choice = ""
    /\ written = <<>>
    /\ requests = <<>>
    /\ cycles = 0
    /\ IdleExtract /\ IdleParse /\ IdleRadian

Next ==
    \/ Startup
    \/ PollIdle
    \/ HandleKnown
    \/ HandleDigit
    \/ HandleUnknown

Spec == Init /\ [][Next]_vars

---------------------------------------------------------------------------
(* Properties of the catalog and of the command loop.                      *)

\* C2: no failure is fatal: the script never ends on an unhandled error,
\* whatever the service answers to the request of a known body.
C2_NoFailureIsFatal == pc /= "terminated"

\* C8: the table resolves a name by exact comparison (Moon is 301, Pluto is
\* 999, Xyzzy and moon are not in it); a command that names a body gets a
\* request for the identifier the table gives it, and a command that names
\* none gets no request and leaves the loop running.
C8_Resolve ==
    /\ [](/\ Lookup(objects, "Moon") = "301"
          /\ Lookup(objects, "Pluto") = "999"
          /\ Lookup(objects, "Xyzzy") = KeyError
          /\ Lookup(objects, "moon") = KeyError)
    /\ [][cycles' = cycles + 1 =>
             IF Lookup(objects, choice') = KeyError
             THEN requests' = requests /\ pc' = "poll"
             ELSE requests' = Append(requests, Lookup(objects, choice'))]_vars

\* The loop has taken a known name in another case and goes on polling, the
\* start's request being the only one.
C8_Witness ==
    /\ pc = "poll"
    /\ choice = "moon"
    /\ cycles = 1
    /\ requests = <<"301">>

TheSun       == {"Sun"}
Planets      == {"Mercury", "Venus", "Earth", "Mars",
                 "Jupiter", "Saturn", "Uranus", "Neptune"}
DwarfPlanets == {"Pluto", "Ceres"}
Moons        == {"Moon", "Phobos", "Deimos", "Io", "Europa", "Ganymede",
                 "Callisto", "Titan", "Rhea", "Iapetus", "Enceladus",
                 "Titania", "Oberon", "Triton"}

\* C9 as stated: the table holds exactly 28 entries, the Sun, 8 planets, 2
\* dwarf planets and 17 moons.
C9_TwentyEightEntries ==
    /\ Len(objects) = 28
    /\ Cardinality(Keys(objects)) = 28
    /\ TheSun \cup Planets \cup DwarfPlanets \subseteq Keys(objects)
    /\ Cardinality(Keys(objects) \ (TheSun \cup Planets \cup DwarfPlanets)) = 17

\* C9 as amended: the table holds exactly 25 entries, the Sun, 8 planets, 2
\* dwarf planets and 14 named moons, and no step of the script adds, removes
\* or changes an entry.
C9_TwentyFiveEntriesFixed ==
    /\ [](/\ Len(objects) = 25
          /\ Cardinality(Keys(objects)) = 25
          /\ Keys(objects) = TheSun \cup Planets \cup DwarfPlanets \cup Moons
          /\ Cardinality(Planets) = 8
          /\ Cardinality(DwarfPlanets) = 2
          /\ Cardinality(Moons) = 14)
    /\ [][objects' = objects]_vars

\* The table after the loop has sent a listing and a coordinate message.
C9_Witness ==
    /\ pc = "poll"
    /\ Len(written) >= 2
    /\ Len(requests) >= 2
    /\ Len(objects) = 25

=============================================================================
